---- MODULE Spec2Model ----
(***************************************************************************)
(* Model of contrail-gremlin: the neutron gateway (App.handler, forward,   *)
(* execute) and the gremlin ServerBackend (vertex / edge CRUD and the edge *)
(* reconciliation of UpdateVertex).                                        *)
(*                                                                         *)
(* The specifications of the module:                                       *)
(*   SpecGateway      inbound HTTP requests against the connection state   *)
(*   SpecShutdown     stop and run: the shutdown of the HTTP server        *)
(*   SpecShutdownFair the same under fair scheduling                       *)
(*   SpecConnection   connection notifications and their observers         *)
(*   Spec             serialized ServerBackend calls against the store     *)
(*   SpecUpdateVertex serialized UpdateVertex calls only                   *)
(*   SpecConcurrent   two UpdateVertex calls on one vertex, interleaved    *)
(*   SpecFilters      RequestFilters.UnmarshalJSON                         *)
(*   SpecQueries      vertexPropertiesQuery and edgePropertiesQuery        *)
(***************************************************************************)
EXTENDS Integers, Sequences, FiniteSets, TLC

VARIABLES connected, backend, methods, req, sd, verts, edges, call, ncalls,
          conc, pf

vars == <<connected, backend, methods, req, sd, verts, edges, call, ncalls,
          conc, pf>>
gatewayVars == <<connected, backend, methods, req, sd>>
storeVars == <<verts, edges, call, ncalls, conc>>

\* pf holds the application of a function that touches no state of the
\* program: its name, its arguments, and its result once it has returned
NoApp == [fn |-> "", pc |-> "none"]

(***************************************************************************)
(* Bounds                                                                  *)
(***************************************************************************)
\* number of requests the HTTP server processes concurrently
NReqs == 1
\* number of ServerBackend API calls issued in one behaviour
MaxCalls == 2
\* length of the desired edge list (OutE ++ InE) of one Vertex
MaxDesired == 2
\* number of observers registered in one handler list of the ServerBackend
MaxObservers == 2

Reqs == 1..NReqs

(***************************************************************************)
(* Gateway: values                                                         *)
(***************************************************************************)
EmptyHdr == [k \in {} |-> <<>>]

\* allImplems: keys are fmt.Sprintf("%s_%s", operation, type)
allImplems == {"READALL_port", "READALL_network"}

\* a.contrailAPIURL = "http://" + contrailAPISrv (default localhost:8082)
contrailAPIURL == "http://localhost:8082"

HttpMethods == {"GET", "POST"}
Paths == {"/neutron/port"}
ReqHeaders == {("X-Auth" :> <<"t1", "t2">>)}

\* request bodies: three that decode into a Request, one that does not
Bodies == {"{READALL port}", "{READALL network}", "{READALL subnet}", "not json"}

\* json.Unmarshal(body, &req): the (operation, type) of the decoded context
Unmarshal(body) ==
    CASE body = "{READALL port}"    -> [ok |-> TRUE, op |-> "READALL", type |-> "port"]
      [] body = "{READALL network}" -> [ok |-> TRUE, op |-> "READALL", type |-> "network"]
      [] body = "{READALL subnet}"  -> [ok |-> TRUE, op |-> "READALL", type |-> "subnet"]
      [] OTHER                      -> [ok |-> FALSE, op |-> "", type |-> ""]

\* fmt.Sprintf("%s_%s", req.Context.Operation, req.Context.Type)
methodKey(op, type) == op \o "_" \o type

\* errors of gremlin client Send: transport failures and a server-side one
TransportErrs == {"connection closed", "request timed out"}
ErrStatusInvalidRequestArguments == "invalid request arguments"
SendErrs == TransportErrs \cup {ErrStatusInvalidRequestArguments}
\* successful results of Send (a zero-length result is possible)
SendResults == {"", "[{id:1}]"}

\* what the upstream (contrail-api) may answer
UpResponses ==
    { [status |-> 200, header |-> ("Content-Type" :> <<"application/json">>), body |-> "[up]"],
      [status |-> 404, header |-> ("X-Up" :> <<"a", "b">>), body |-> "nf"] }
DoErr == "dial tcp: timeout"
CopyErr == "unexpected EOF"
ReadErr == "read: connection reset"

NoOut == [sent |-> FALSE, method |-> "", url |-> "", header |-> EmptyHdr, body |-> ""]
NoUp == [status |-> 0, header |-> EmptyHdr, body |-> ""]

(***************************************************************************)
(* http.ResponseWriter: header map, the header snapshot taken by           *)
(* WriteHeader, status and body.                                           *)
(***************************************************************************)
NewWriter == [wroteHeader |-> FALSE, status |-> 0, header |-> EmptyHdr,
              sent |-> EmptyHdr, body |-> ""]

\* http.DetectContentType on the first bytes written (all payloads are text)
DetectContentType(p) == "text/plain; charset=utf-8"

\* w.WriteHeader(code): the first call fixes status and headers
WriteHeader(w, code) ==
    IF w.wroteHeader THEN w
    ELSE [w EXCEPT !.wroteHeader = TRUE, !.status = code, !.sent = w.header]

\* w.Header().Set(k, v): changes after WriteHeader never reach the client
HeaderSet(w, k, v) == [w EXCEPT !.header = (k :> <<v>>) @@ w.header]

\* w.Write(p): implies WriteHeader(200); sniffs Content-Type when unset
Write(w, p) ==
    LET w1 == WriteHeader(w, 200)
        w2 == IF w1.body = "" /\ p # "" /\ "Content-Type" \notin DOMAIN w1.sent
              THEN [w1 EXCEPT !.sent = ("Content-Type" :> <<DetectContentType(p)>>) @@ w1.sent]
              ELSE w1
    IN [w2 EXCEPT !.body = w2.body \o p]

\* http.Error(w, msg, code)
httpError(w, msg, code) ==
    LET w1 == HeaderSet(HeaderSet(w, "Content-Type", "text/plain; charset=utf-8"),
                        "X-Content-Type-Options", "nosniff")
    IN Write(WriteHeader(w1, code), msg \o "\n")

\* copyHeaders(src, dst): dst.Add(k, v) for every value of every key
copyHeaders(src, dst) ==
    [k \in DOMAIN src \cup DOMAIN dst |->
        (IF k \in DOMAIN dst THEN dst[k] ELSE <<>>) \o
        (IF k \in DOMAIN src THEN src[k] ELSE <<>>)]

(***************************************************************************)
(* Gateway: state of one inbound request                                   *)
(*   pc      idle -> recv -> (forward | handler) -> done                   *)
(*   parsed  json.Unmarshal was applied to the body                        *)
(*   looked  a.methods was consulted                                       *)
(*   hcalls  number of invocations of a registered handler                 *)
(*   fwds    number of calls of a.forward                                  *)
(*   out     the request the upstream received                             *)
(*   up      the response the upstream gave                                *)
(*   senderr the error Send returned to execute ("" when none)             *)
(*   sendok  Send returned a result to execute                             *)
(*   sendres the result Send returned                                      *)
(*   payload the bytes execute returned                                    *)
(***************************************************************************)
IdleReq == [pc |-> "idle", method |-> "", path |-> "", header |-> EmptyHdr,
            body |-> "", connAtEntry |-> FALSE, parsed |-> FALSE,
            looked |-> FALSE, hcalls |-> 0, fwds |-> 0, fwdBody |-> "",
            out |-> NoOut, up |-> NoUp, senderr |-> "", sendok |-> FALSE,
            sendres |-> "", payload |-> "", w |-> NewWriter]

(***************************************************************************)
(* Shutdown: run, its signal goroutine, and stop                           *)
(*   srv     the http.Server: "serving", "closing" (Shutdown was called,   *)
(*           it accepts nothing and waits for the requests in flight),     *)
(*           "closed" (Shutdown returned), "failed" (ListenAndServe        *)
(*           returned an error of its own)                                 *)
(*   sig     the goroutine: "select" -> "shutdown" -> "done"               *)
(*   main    run after newApp: "listen" -> "wait" -> "stop" -> "signal"    *)
(*           -> "exit"                                                     *)
(*   sigint  an interrupt is pending on the sigint channel                 *)
(*   quit, closed   number of values in the two channels (capacity 1)      *)
(*   idleConnsClosed  the channel idleConnsClosed has been closed          *)
(*   backendStopped   a.backend.Stop() has returned                        *)
(*   stopper  each caller of stop(): "none" -> "sent" (quit <- true is     *)
(*            done, the caller waits on closed) -> "returned"              *)
(*   waited   requests were in flight when srv.Shutdown was called         *)
(***************************************************************************)
\* the callers of stop()
Stoppers == {"s1", "s2"}

InitShutdown ==
    [srv |-> "serving", sig |-> "select", main |-> "listen", sigint |-> FALSE,
     quit |-> 0, closed |-> 0, idleConnsClosed |-> FALSE,
     backendStopped |-> FALSE, stopper |-> [s \in Stoppers |-> "none"],
     waited |-> FALSE]

\* capacity of the channels quit and closed: make(chan bool, 1)
ChanCap == 1

\* a request is in flight: App.handler was called for it and has not returned
InFlight(rq) == {r \in DOMAIN rq : rq[r].pc \notin {"idle", "done"}}

\* the HTTP server accepts a request and will call App.handler with it
Arrive(r) ==
    /\ sd.srv = "serving"
    /\ req[r].pc \in {"idle", "done"}
    /\ \E m \in HttpMethods, p \in Paths, h \in ReqHeaders, b \in Bodies :
          req' = [req EXCEPT ![r] =
                    [IdleReq EXCEPT !.pc = "recv", !.method = m, !.path = p,
                                    !.header = h, !.body = b]]
    /\ UNCHANGED <<connected, backend, methods>>
    /\ UNCHANGED <<sd, pf, storeVars>>

\* b.IsConnected()
IsConnected == connected

\* handlerRoute without the connection check of its first line
handlerRoute_noConnectionCheck(isConnected, readOk, body, table) ==
    IF ~readOk THEN "readfail"
    ELSE IF ~Unmarshal(body).ok THEN "badrequest"
    ELSE IF methodKey(Unmarshal(body).op, Unmarshal(body).type) \in table THEN "handler"
    ELSE "forwardparsed"

\* handlerRoute that rejects a request without a registered handler
handlerRoute_missingIsError(isConnected, readOk, body, table) ==
    IF ~isConnected THEN "forward"
    ELSE IF ~readOk THEN "readfail"
    ELSE IF ~Unmarshal(body).ok THEN "badrequest"
    ELSE IF methodKey(Unmarshal(body).op, Unmarshal(body).type) \in table THEN "handler"
    ELSE "badrequest"

\* handlerRoute that forwards a body it could not decode
handlerRoute_undecodableForwards(isConnected, readOk, body, table) ==
    IF ~isConnected THEN "forward"
    ELSE IF ~readOk THEN "readfail"
    ELSE IF ~Unmarshal(body).ok THEN "forwardparsed"
    ELSE IF methodKey(Unmarshal(body).op, Unmarshal(body).type) \in table THEN "handler"
    ELSE "forwardparsed"

\* the routing decision of App.handler, in the order the code takes it:
\*   not connected          -> "forward" (r.Body is handed on unread)
\*   ioutil.ReadAll fails   -> "readfail"
\*   json.Unmarshal fails   -> "badrequest"
\*   a.methods has the key  -> "handler"
\*   otherwise              -> "forwardparsed" (bytes.NewReader(body))
handlerRoute(isConnected, readOk, body, table) ==
    IF ~isConnected THEN "forward"
    ELSE IF ~readOk THEN "readfail"
    ELSE IF ~Unmarshal(body).ok THEN "badrequest"
    ELSE IF methodKey(Unmarshal(body).op, Unmarshal(body).type) \in table THEN "handler"
    ELSE "forwardparsed"

\* App.handler up to its first blocking call (the upstream round trip of
\* forward, or the Send of the handler's query)
handler(r) ==
    /\ req[r].pc = "recv"
    /\ \E readOk \in BOOLEAN :
         LET q == [req[r] EXCEPT !.connAtEntry = IsConnected]
             route == handlerRoute(IsConnected, readOk, q.body, methods)
         IN \/ /\ route = "forward"
               /\ req' = [req EXCEPT ![r] =
                            [q EXCEPT !.pc = "forward", !.fwds = @ + 1, !.fwdBody = q.body]]
            \/ /\ route = "readfail"
               /\ req' = [req EXCEPT ![r] =
                            [q EXCEPT !.pc = "done", !.w = httpError(q.w, ReadErr, 400)]]
            \/ /\ route = "badrequest"
               /\ req' = [req EXCEPT ![r] =
                            [q EXCEPT !.pc = "done", !.parsed = TRUE,
                                      !.w = httpError(q.w, "invalid character", 400)]]
            \/ /\ route = "handler"
               /\ req' = [req EXCEPT ![r] =
                            [q EXCEPT !.pc = "handler", !.parsed = TRUE, !.looked = TRUE,
                                      !.hcalls = @ + 1]]
            \/ /\ route = "forwardparsed"
               /\ req' = [req EXCEPT ![r] =
                            [q EXCEPT !.pc = "forward", !.parsed = TRUE, !.looked = TRUE,
                                      !.fwds = @ + 1, !.fwdBody = q.body]]
    /\ UNCHANGED <<connected, backend, methods>>
    /\ UNCHANGED <<sd, pf, storeVars>>

\* executeResult that hands the transport result on as it is
executeResult_raw(res) == res

\* App.execute: the result handed back to the handler for a Send outcome
executeResult(res) == IF Len(res) = 0 THEN "[]" ELSE res

\* handlerErrorResponse that forgets the status line
handlerErrorResponse_noStatus(w, err) ==
    Write(HeaderSet(w, "Content-Type", "text/plain; charset=utf-8"), err)

\* the response App.handler writes when the handler returned an error
handlerErrorResponse(w, err) ==
    Write(HeaderSet(WriteHeader(w, 500), "Content-Type", "text/plain; charset=utf-8"), err)

\* the response App.handler writes when the handler returned res
handlerOkResponse(w, res) ==
    Write(HeaderSet(w, "Content-Type", "application/json; charset=utf-8"), res)

\* the registered handler (listPorts / listNetworks) returns from
\* app.execute, i.e. from b.Send, and App.handler writes the response
execute(r) ==
    /\ req[r].pc = "handler"
    /\ \/ \E err \in SendErrs :
             req' = [req EXCEPT ![r] =
                       [@ EXCEPT !.pc = "done", !.senderr = err,
                                 !.w = handlerErrorResponse(req[r].w, err)]]
       \/ \E res \in SendResults :
             req' = [req EXCEPT ![r] =
                       [@ EXCEPT !.pc = "done", !.sendok = TRUE, !.sendres = res,
                                 !.payload = executeResult(res),
                                 !.w = handlerOkResponse(req[r].w, executeResult(res))]]
    /\ UNCHANGED <<connected, backend, methods>>
    /\ UNCHANGED <<sd, pf, storeVars>>

\* the request App.forward builds: http.NewRequest("POST", url, body) and
\* copyHeaders(r.Header, req.Header)
forwardRequest(q) ==
    [sent |-> TRUE, method |-> "POST", url |-> contrailAPIURL \o q.path,
     header |-> copyHeaders(q.header, EmptyHdr), body |-> q.fwdBody]

\* the response App.forward writes for an upstream response
forwardResponse(w, up) ==
    Write([WriteHeader([w EXCEPT !.header = copyHeaders(up.header, w.header)], up.status)
             EXCEPT !.body = ""], up.body)

\* App.forward: the upstream round trip and the copy of its response
forward(r) ==
    /\ req[r].pc = "forward"
    /\ LET q == req[r] IN
       \/ \* a.contrailClient.Do(req) fails: nothing reached the upstream
          req' = [req EXCEPT ![r] =
                    [q EXCEPT !.pc = "done", !.w = httpError(q.w, DoErr, 503)]]
       \/ \E up \in UpResponses :
             req' = [req EXCEPT ![r] =
                       [q EXCEPT !.pc = "done", !.out = forwardRequest(q), !.up = up,
                                 !.w = forwardResponse(q.w, up)]]
       \/ \* io.Copy(w, resp.Body) fails after the status line went out
          \E up \in UpResponses :
             req' = [req EXCEPT ![r] =
                       [q EXCEPT !.pc = "done", !.out = forwardRequest(q), !.up = up,
                                 !.w = httpError(
                                         WriteHeader([q.w EXCEPT !.header =
                                                        copyHeaders(up.header, q.w.header)],
                                                     up.status),
                                         CopyErr, 500)]]
    /\ UNCHANGED <<connected, backend, methods>>
    /\ UNCHANGED <<sd, pf, storeVars>>

(***************************************************************************)
(* ServerBackend: observers of the connection state                        *)
(*   connectedHandlers, disconnectedHandlers   the registered observers    *)
(*   last   the latest notification of the gremlin client: its kind, the   *)
(*          error it reported, and the observers invoked, in order         *)
(***************************************************************************)
NoNotification == [kind |-> "none", err |-> "", calls |-> <<>>]

\* NewServerBackend: both handler lists empty
NewServerBackend ==
    [connectedHandlers |-> <<>>, disconnectedHandlers |-> <<>>, last |-> NoNotification]

\* newApp: the backend with the two observers of App registered
NewApp ==
    [connectedHandlers |-> <<"onGremlinConnect">>,
     disconnectedHandlers |-> <<"onGremlinDisconnect">>, last |-> NoNotification]

\* observers other callers register
Observers == {"o1", "o2"}
\* errors the gremlin client reports on a disconnect (nil: a clean close)
DisconnectErrs == {"nil", "connection closed"}

\* invokeAll that runs the observers last to first
invokeAll_reversed(handlers) ==
    [i \in 1..Len(handlers) |-> handlers[Len(handlers) + 1 - i]]

\* for _, h := range handlers { h(...) }: the observers invoked, in order
invokeAll(handlers) == [i \in 1..Len(handlers) |-> handlers[i]]

\* ServerBackend.AddConnectedHandler(h)
AddConnectedHandler ==
    /\ Len(backend.connectedHandlers) < MaxObservers
    /\ \E h \in Observers :
          backend' = [backend EXCEPT !.connectedHandlers = Append(@, h)]
    /\ UNCHANGED <<connected, methods, req, sd, pf, storeVars>>

\* ServerBackend.AddDisconnectedHandler(h)
AddDisconnectedHandler ==
    /\ Len(backend.disconnectedHandlers) < MaxObservers
    /\ \E h \in Observers :
          backend' = [backend EXCEPT !.disconnectedHandlers = Append(@, h)]
    /\ UNCHANGED <<connected, methods, req, sd, pf, storeVars>>

\* ServerBackend.onConnected, called by the gremlin client
onConnected ==
    /\ connected' = TRUE
    /\ backend' = [backend EXCEPT !.last =
                     [kind |-> "connected", err |-> "",
                      calls |-> invokeAll(backend.connectedHandlers)]]
    /\ UNCHANGED <<methods, req>>
    /\ UNCHANGED <<sd, pf, storeVars>>

\* ServerBackend.onDisconnected(err), called by the gremlin client
onDisconnected ==
    /\ connected' = FALSE
    /\ \E err \in DisconnectErrs :
          backend' = [backend EXCEPT !.last =
                        [kind |-> "disconnected", err |-> err,
                         calls |-> invokeAll(backend.disconnectedHandlers)]]
    /\ UNCHANGED <<methods, req>>
    /\ UNCHANGED <<sd, pf, storeVars>>

\* os.Interrupt is delivered to the sigint channel of the goroutine
Interrupt ==
    /\ sd.sig = "select"
    /\ ~sd.sigint
    /\ sd' = [sd EXCEPT !.sigint = TRUE]
    /\ UNCHANGED <<connected, backend, methods, req, pf, storeVars>>

\* stop(), first statement: quit <- true
stopSend(s) ==
    /\ sd.stopper[s] = "none"
    /\ sd.quit < ChanCap
    /\ sd' = [sd EXCEPT !.quit = @ + 1, !.stopper[s] = "sent"]
    /\ UNCHANGED <<connected, backend, methods, req, pf, storeVars>>

\* stop(), second statement: <-closed, then stop returns
stopReturn(s) ==
    /\ sd.stopper[s] = "sent"
    /\ sd.closed > 0
    /\ sd' = [sd EXCEPT !.closed = @ - 1, !.stopper[s] = "returned"]
    /\ UNCHANGED <<connected, backend, methods, req, pf, storeVars>>

\* the goroutine leaves its select on sigint or quit and calls srv.Shutdown:
\* the listeners are closed and nothing more is accepted
shutdownBegin ==
    /\ sd.sig = "select"
    /\ \/ /\ sd.sigint
          /\ sd' = [sd EXCEPT !.sigint = FALSE, !.sig = "shutdown", !.srv = "closing",
                               !.waited = InFlight(req) # {}]
       \/ /\ sd.quit > 0
          /\ sd' = [sd EXCEPT !.quit = @ - 1, !.sig = "shutdown", !.srv = "closing",
                               !.waited = InFlight(req) # {}]
    /\ UNCHANGED <<connected, backend, methods, req, pf, storeVars>>

\* srv.Shutdown(context.Background()) returns once no request is in flight;
\* the goroutine then closes idleConnsClosed
shutdownReturn ==
    /\ sd.sig = "shutdown"
    /\ InFlight(req) = {}
    /\ sd' = [sd EXCEPT !.sig = "done", !.srv = "closed", !.idleConnsClosed = TRUE]
    /\ UNCHANGED <<connected, backend, methods, req, pf, storeVars>>

\* srv.ListenAndServe() returns in run: with http.ErrServerClosed as soon as
\* Shutdown was called, or with an error of its own (logged) while serving
listenReturn ==
    /\ sd.main = "listen"
    /\ \/ /\ sd.srv \in {"closing", "closed"}
          /\ sd' = [sd EXCEPT !.main = "wait"]
       \/ /\ sd.srv = "serving"
          /\ sd' = [sd EXCEPT !.main = "wait", !.srv = "failed"]
    /\ UNCHANGED <<connected, backend, methods, req, pf, storeVars>>

\* mayPassIdleConnsClosed that does not wait for the channel
mayPassIdleConnsClosed_noWait(s) == TRUE

\* run can pass <-idleConnsClosed: the channel has been closed
mayPassIdleConnsClosed(s) == s.idleConnsClosed

\* run: <-idleConnsClosed
waitIdleConnsClosed ==
    /\ sd.main = "wait"
    /\ mayPassIdleConnsClosed(sd)
    /\ sd' = [sd EXCEPT !.main = "stop"]
    /\ UNCHANGED <<connected, backend, methods, req, pf, storeVars>>

\* run: app.stop(), i.e. a.backend.Stop(), returns
appStop ==
    /\ sd.main = "stop"
    /\ sd' = [sd EXCEPT !.main = "signal", !.backendStopped = TRUE]
    /\ UNCHANGED <<connected, backend, methods, req, pf, storeVars>>

\* run: closed <- true, then run returns
signalClosed ==
    /\ sd.main = "signal"
    /\ sd.closed < ChanCap
    /\ sd' = [sd EXCEPT !.main = "exit", !.closed = @ + 1]
    /\ UNCHANGED <<connected, backend, methods, req, pf, storeVars>>

\* NewServerBackend stores false; newApp fills a.methods from implems
InitGateway ==
    /\ connected = FALSE
    /\ backend = NewApp
    /\ methods \in SUBSET allImplems
    /\ req = [r \in Reqs |-> IdleReq]
    /\ sd = InitShutdown

(***************************************************************************)
(* Graph store: values                                                     *)
(*   verts  id -> [label, props] for the vertices that exist               *)
(*   edges  the stored edges, in the order bothE() returns them            *)
(***************************************************************************)
Ids == {1, 2}
EdgeLabels == {"ref", "parent"}
VLabel == "virtual_network"

Nil == "nil"
EmptyProps == [n \in {} |-> ""]
\* property maps of the edges a Vertex declares
DesiredProps == {EmptyProps, ("p" :> "1")}
\* property maps handed to CreateEdge / UpdateEdge directly
EdgePropInputs == DesiredProps \cup {("p" :> Nil)}
\* property lists of a Vertex: name -> list of values
VertexPropInputs == {("name" :> <<"a">>)}

ErrIncompleteVertex == "vertex is incomplete"
ErrLabelEmpty == "label can not be empty"
\* errors any Send may return whatever the script
ScriptErrs == {"connection closed"}

\* the properties of a stub vertex
StubProps == ("fq_name" :> <<"_missing">>) @@ ("_missing" :> <<"true">>)
                @@ ("deleted" :> <<"0">>)

SeqsUpTo(S, n) == UNION {[1..k -> S] : k \in 0..n}

Edge(o, ol, i, il, l, p) ==
    [OutV |-> o, OutVLabel |-> ol, InV |-> i, InVLabel |-> il,
     Label |-> l, Properties |-> p]

\* the edges the callers know between vertices 1 and 2: two labels one way,
\* one label the other way, and one identity with two property maps
KnownEdges ==
    { <<1, 2, "ref", EmptyProps>>, <<1, 2, "ref", ("p" :> "1")>>,
      <<1, 2, "parent", EmptyProps>>, <<2, 1, "ref", EmptyProps>> }

\* edges a Vertex with id v declares: OutE (ref/parent: OutVLabel empty)
OutEdgesOf(v) ==
    {Edge(k[1], "", k[2], VLabel, k[3], k[4]) : k \in {x \in KnownEdges : x[1] = v}}
\* and InE (children/backref: InVLabel empty)
InEdgesOf(v) ==
    {Edge(k[1], VLabel, k[2], "", k[3], k[4]) : k \in {x \in KnownEdges : x[2] = v}}

\* the Vertex values handed to UpdateVertex
VertexInputs ==
    UNION {
      {[ID |-> v, Label |-> lb, Properties |-> pr, OutE |-> oe, InE |-> ie] :
          lb \in {"", VLabel}, pr \in VertexPropInputs,
          oe \in SeqsUpTo(OutEdgesOf(v), MaxDesired),
          ie \in SeqsUpTo(InEdgesOf(v), MaxDesired)} : v \in Ids}

\* the Edge values handed to CreateEdge directly: every combination of
\* empty / non-empty endpoint labels
CreateEdgeInputs ==
    {Edge(k[1], ol, k[2], il, k[3], k[4]) :
        k \in KnownEdges, ol \in {"", VLabel}, il \in {"", VLabel}}

\* the Edge values handed to UpdateEdge directly (it reads InV, OutV and
\* Properties only)
UpdateEdgeInputs == {Edge(1, "", 2, VLabel, "ref", p) : p \in EdgePropInputs}

\* the Edge values handed to DeleteEdge directly (it reads InV and OutV only)
DeleteEdgeInputs == {Edge(1, "", 2, VLabel, "ref", EmptyProps),
                     Edge(2, "", 1, VLabel, "parent", EmptyProps)}

\* identity of an edge: (source id, destination id, label)
SameIdentity(l1, l2) ==
    l1.InV = l2.InV /\ l1.OutV = l2.OutV /\ l1.Label = l2.Label

\* the stored edge between the same two vertices, whatever label and direction
Between(se, a, b) ==
    \/ se.OutV = a /\ se.InV = b
    \/ se.OutV = b /\ se.InV = a

Exists(vs, id) == id \in DOMAIN vs

(***************************************************************************)
(* Property query generators: what the generated fragment sets             *)
(***************************************************************************)
\* vertexPropertiesQuery: one .property() per value, names without a value
\* emit nothing
vertexPropertiesQuery(propList) ==
    [n \in {m \in DOMAIN propList : Len(propList[m]) > 0} |-> propList[n]]

\* edgePropertiesQuery: properties whose value is nil are left out
edgePropertiesQuery(propList) ==
    [n \in {m \in DOMAIN propList : propList[m] # Nil} |-> propList[n]]

(***************************************************************************)
(* The scripts of ServerBackend, as functions of the store.                *)
(* Each yields [verts, edges, err]; err is "" when the script succeeded.   *)
(***************************************************************************)
Result(vs, es, err) == [verts |-> vs, edges |-> es, err |-> err]

\* g.addV(label).property(id, x).property('fq_name', ['_missing'])
\*  .property('_missing', true).property('deleted', 0)
addStub(vs, id, label) == (id :> [label |-> label, props |-> StubProps]) @@ vs

\* which of the two queries of CreateEdge is submitted: the second `if`
\* overwrites the first; with both labels set the query stays empty
createEdgeQuery(e) ==
    IF e.InVLabel = "" THEN "to_inv"
    ELSE IF e.OutVLabel = "" THEN "from_outv"
    ELSE "empty"

\* the script of CreateEdge
CreateEdgeScript(vs, es, e) ==
    LET se == [OutV |-> e.OutV, InV |-> e.InV, Label |-> e.Label,
               Properties |-> edgePropertiesQuery(e.Properties)]
        q == createEdgeQuery(e)
    IN CASE q = "from_outv" ->
              \* g.V(_outv).as('outv').coalesce(g.V(_inv), g.addV(_inv_label)...)
              \*  .addE(_label).from('outv')
              IF ~Exists(vs, e.OutV) THEN Result(vs, es, "")
              ELSE Result(IF Exists(vs, e.InV) THEN vs ELSE addStub(vs, e.InV, e.InVLabel),
                          Append(es, se), "")
         [] q = "to_inv" ->
              \* g.V(_inv).as('inv').coalesce(g.V(_outv), g.addV(_outv_label)...)
              \*  .addE(_label).to('inv')
              IF ~Exists(vs, e.InV) THEN Result(vs, es, "")
              ELSE IF Exists(vs, e.OutV) THEN Result(vs, Append(es, se), "")
              ELSE IF e.OutVLabel = "" THEN Result(vs, es, ErrLabelEmpty)
              ELSE Result(addStub(vs, e.OutV, e.OutVLabel), Append(es, se), "")
         [] OTHER -> Result(vs, es, "")

\* the script of UpdateVertex:
\* g.V().hasId(_id).fold().coalesce(unfold().sideEffect(properties().drop()),
\*                                   addV(_label).property(id, _id)) + props
UpdateVertexScript(vs, es, v) ==
    LET props == vertexPropertiesQuery(v.Properties)
    IN IF Exists(vs, v.ID)
       THEN Result([vs EXCEPT ![v.ID].props = props], es, "")
       ELSE Result((v.ID :> [label |-> v.Label, props |-> props]) @@ vs, es, "")

\* the script of UpdateEdge:
\* g.V(_inv).bothE().where(otherV().hasId(_outv)).sideEffect(properties().drop()) + props
UpdateEdgeScript(vs, es, e) ==
    Result(vs,
           [i \in 1..Len(es) |->
               IF Between(es[i], e.InV, e.OutV)
               THEN [es[i] EXCEPT !.Properties = edgePropertiesQuery(e.Properties)]
               ELSE es[i]],
           "")

\* the script of DeleteEdge:
\* g.V(_inv).bothE().where(otherV().hasId(_outv)).drop()
DeleteEdgeScript(vs, es, e) ==
    Result(vs, SelectSeq(es, LAMBDA se : ~Between(se, e.InV, e.OutV)), "")

\* the script of DeleteVertex: g.V(_id).drop() (the store drops its edges)
DeleteVertexScript(vs, es, id) ==
    Result([i \in DOMAIN vs \ {id} |-> vs[i]],
           SelectSeq(es, LAMBDA se : se.OutV # id /\ se.InV # id), "")

\* the script of UpdateVertexProperty: g.V(_id).property(_name, _value)
UpdateVertexPropertyScript(vs, es, id, name, value) ==
    IF Exists(vs, id)
    THEN Result([vs EXCEPT ![id].props = (name :> <<value>>) @@ @], es, "")
    ELSE Result(vs, es, "")

\* currentVertexEdges that reads no edge
currentVertexEdges_none(vs, es, id) == <<>>

\* currentVertexEdges: g.V(_id).bothE(), decoded into []Edge
currentVertexEdges(vs, es, id) ==
    LET touching == SelectSeq(es, LAMBDA se : se.OutV = id \/ se.InV = id)
    IN [i \in 1..Len(touching) |->
          [OutV |-> touching[i].OutV, OutVLabel |-> vs[touching[i].OutV].label,
           InV |-> touching[i].InV, InVLabel |-> vs[touching[i].InV].label,
           Label |-> touching[i].Label, Properties |-> touching[i].Properties]]

(***************************************************************************)
(* diffVertexEdges                                                         *)
(***************************************************************************)
\* index of the first edge of list with the identity of l1, 0 when none
FirstMatch(l1, list) ==
    IF \E i \in 1..Len(list) : SameIdentity(l1, list[i])
    THEN CHOOSE i \in 1..Len(list) :
            /\ SameIdentity(l1, list[i])
            /\ \A j \in 1..(i - 1) : ~SameIdentity(l1, list[j])
    ELSE 0

\* vertexEdges: v.OutE followed by v.InE
vertexEdges(v) == v.OutE \o v.InE

\* diffVertexEdges that never finds an edge to update
diffVertexEdges_noUpdate(v, currentEdges) ==
    LET desired == vertexEdges(v)
    IN [toAdd |-> SelectSeq(desired, LAMBDA l1 : FirstMatch(l1, currentEdges) = 0),
        toUpdate |-> <<>>,
        toRemove |-> SelectSeq(currentEdges, LAMBDA l1 : FirstMatch(l1, desired) = 0)]

\* the three lists diffVertexEdges computes from the edges read
diffVertexEdges(v, currentEdges) ==
    LET desired == vertexEdges(v)
    IN [toAdd |-> SelectSeq(desired, LAMBDA l1 : FirstMatch(l1, currentEdges) = 0),
        toUpdate |-> SelectSeq(desired, LAMBDA l1 :
                        /\ FirstMatch(l1, currentEdges) # 0
                        /\ l1.Properties # currentEdges[FirstMatch(l1, currentEdges)].Properties),
        toRemove |-> SelectSeq(currentEdges, LAMBDA l1 : FirstMatch(l1, desired) = 0)]

(***************************************************************************)
(* ServerBackend calls.  call is the call in progress or last returned:    *)
(*   op    the method called                                               *)
(*   pc    "idle", for UpdateVertex "read" -> "apply", "done" on return    *)
(*   v     the Vertex argument (UpdateVertex, UpdateVertexProperty)        *)
(*   e     the Edge argument (CreateEdge, UpdateEdge, DeleteEdge)          *)
(*   toAdd, toUpdate, toRemove   the operations not yet submitted          *)
(*   sent  the scripts submitted so far, each with the error it returned   *)
(*   ret   the error returned ("" for nil)                                 *)
(*   absent  the endpoints of e that did not exist when the call began     *)
(*   nodup   no two stored edges shared an identity when the call began    *)
(***************************************************************************)
NoVertex == [ID |-> 0, Label |-> "", Properties |-> [n \in {} |-> <<>>],
             OutE |-> <<>>, InE |-> <<>>]
NoEdge == [OutV |-> 0, OutVLabel |-> "", InV |-> 0, InVLabel |-> "",
           Label |-> "", Properties |-> EmptyProps]
IdleCall == [op |-> "", pc |-> "idle", v |-> NoVertex, e |-> NoEdge,
             toAdd |-> <<>>, toUpdate |-> <<>>, toRemove |-> <<>>,
             sent |-> <<>>, ret |-> "", absent |-> {}, nodup |-> TRUE]

Sent(kind, e, err) == [kind |-> kind, e |-> e, err |-> err]

\* no two edges of the list share (source id, destination id, label)
NoDuplicates(list) ==
    \A i, j \in 1..Len(list) : i # j => ~SameIdentity(list[i], list[j])

\* a new call may begin: calls are serialized
CanCall == call.pc = "idle" /\ ncalls < MaxCalls

Begin(op, v, e) ==
    [IdleCall EXCEPT !.op = op, !.v = v, !.e = e,
                     !.absent = {e.OutV, e.InV} \ ({0} \cup DOMAIN verts),
                     !.nodup = NoDuplicates(edges)]

\* b.Send for a script whose effect on the store is res: either the script
\* runs and its own outcome is returned, or the submission fails and the
\* store stays as it was
SendOutcomes(res) ==
    {res} \cup {Result(verts, edges, err) : err \in ScriptErrs}

\* incompleteVertex that lets every vertex through
incompleteVertex_never(v) == FALSE

\* the precondition UpdateVertex and UpdateVertexProperty share
incompleteVertex(v) == v.Label = ""

\* afterVertexScript that goes on to the edges whatever the error
afterVertexScript_always(err) == "read"

\* where UpdateVertex goes when the vertex script returned err: it returns
\* the error, or calls updateVertexEdges
afterVertexScript(err) == IF err = "" THEN "read" ELSE "done"

\* UpdateVertex(v) (CreateVertex(v) is the same call) up to the return of
\* the vertex script
UpdateVertex ==
    /\ CanCall
    /\ ncalls' = ncalls + 1
    /\ \E v \in VertexInputs :
         /\ Len(v.OutE) + Len(v.InE) <= MaxDesired
         /\ IF incompleteVertex(v)
            THEN /\ call' = [Begin("UpdateVertex", v, NoEdge) EXCEPT
                                !.pc = "done", !.ret = ErrIncompleteVertex]
                 /\ UNCHANGED <<verts, edges>>
            ELSE \E out \in SendOutcomes(UpdateVertexScript(verts, edges, v)) :
                    /\ verts' = out.verts
                    /\ edges' = out.edges
                    /\ call' = [Begin("UpdateVertex", v, NoEdge) EXCEPT
                                  !.pc = afterVertexScript(out.err),
                                  !.ret = out.err,
                                  !.sent = <<Sent("vertex", NoEdge, out.err)>>]
    /\ UNCHANGED <<gatewayVars, pf, conc>>

\* updateVertexEdges, first part: diffVertexEdges reads the current edges
\* and computes the three lists
updateVertexEdgesDiff ==
    /\ call.pc = "read"
    /\ \/ \E err \in ScriptErrs :
             call' = [call EXCEPT !.pc = "done", !.ret = err,
                                  !.sent = Append(@, Sent("read", NoEdge, err))]
       \/ LET d == diffVertexEdges(call.v, currentVertexEdges(verts, edges, call.v.ID))
              empty == d.toAdd = <<>> /\ d.toUpdate = <<>> /\ d.toRemove = <<>>
          IN call' = [call EXCEPT !.pc = IF empty THEN "done" ELSE "apply",
                                  !.toAdd = d.toAdd, !.toUpdate = d.toUpdate,
                                  !.toRemove = d.toRemove,
                                  !.sent = Append(@, Sent("read", NoEdge, ""))]
    /\ UNCHANGED <<verts, edges, ncalls>>
    /\ UNCHANGED <<gatewayVars, pf, conc>>

\* nextEdgeOp that submits the removals first
nextEdgeOp_removeFirst(c) ==
    IF c.toRemove # <<>> THEN "delete"
    ELSE IF c.toAdd # <<>> THEN "create"
    ELSE "update"

\* the next operation updateVertexEdges submits: all of toAdd, then all of
\* toUpdate, then all of toRemove
nextEdgeOp(c) ==
    IF c.toAdd # <<>> THEN "create"
    ELSE IF c.toUpdate # <<>> THEN "update"
    ELSE "delete"

\* continueAfter that ignores the error
continueAfter_always(err) == TRUE

\* whether updateVertexEdges goes on after an operation returned err
continueAfter(err) == err = ""

\* updateVertexEdges, one iteration of its loops: submit the next operation
\* and return its error, if any
updateVertexEdgesApply ==
    /\ call.pc = "apply"
    /\ LET kind == nextEdgeOp(call)
           edge == CASE kind = "create" -> Head(call.toAdd)
                     [] kind = "update" -> Head(call.toUpdate)
                     [] OTHER -> Head(call.toRemove)
           res == CASE kind = "create" -> CreateEdgeScript(verts, edges, edge)
                    [] kind = "update" -> UpdateEdgeScript(verts, edges, edge)
                    [] OTHER -> DeleteEdgeScript(verts, edges, edge)
           rest == CASE kind = "create" -> [call EXCEPT !.toAdd = Tail(@)]
                     [] kind = "update" -> [call EXCEPT !.toUpdate = Tail(@)]
                     [] OTHER -> [call EXCEPT !.toRemove = Tail(@)]
           last == rest.toAdd = <<>> /\ rest.toUpdate = <<>> /\ rest.toRemove = <<>>
       IN \E out \in SendOutcomes(res) :
             /\ verts' = out.verts
             /\ edges' = out.edges
             /\ call' = [rest EXCEPT
                           !.pc = IF continueAfter(out.err) /\ ~last THEN "apply" ELSE "done",
                           !.ret = out.err,
                           !.sent = Append(@, Sent(kind, edge, out.err))]
    /\ UNCHANGED ncalls
    /\ UNCHANGED <<gatewayVars, pf, conc>>

\* a call that is a single script: submit it and return its error
SingleScript(op, v, e, res) ==
    \E out \in SendOutcomes(res) :
        /\ verts' = out.verts
        /\ edges' = out.edges
        /\ call' = [Begin(op, v, e) EXCEPT !.pc = "done", !.ret = out.err,
                                           !.sent = <<Sent(op, e, out.err)>>]

\* CreateEdge(e)
CreateEdge ==
    /\ CanCall
    /\ ncalls' = ncalls + 1
    /\ \E e \in CreateEdgeInputs :
         SingleScript("CreateEdge", NoVertex, e, CreateEdgeScript(verts, edges, e))
    /\ UNCHANGED <<gatewayVars, pf, conc>>

\* UpdateEdge(e)
UpdateEdge ==
    /\ CanCall
    /\ ncalls' = ncalls + 1
    /\ \E e \in UpdateEdgeInputs :
         SingleScript("UpdateEdge", NoVertex, e, UpdateEdgeScript(verts, edges, e))
    /\ UNCHANGED <<gatewayVars, pf, conc>>

\* DeleteEdge(e)
DeleteEdge ==
    /\ CanCall
    /\ ncalls' = ncalls + 1
    /\ \E e \in DeleteEdgeInputs :
         SingleScript("DeleteEdge", NoVertex, e, DeleteEdgeScript(verts, edges, e))
    /\ UNCHANGED <<gatewayVars, pf, conc>>

\* DeleteVertex(v)
DeleteVertex ==
    /\ CanCall
    /\ ncalls' = ncalls + 1
    /\ \E id \in Ids :
         SingleScript("DeleteVertex", [NoVertex EXCEPT !.ID = id], NoEdge,
                      DeleteVertexScript(verts, edges, id))
    /\ UNCHANGED <<gatewayVars, pf, conc>>

\* UpdateVertexProperty(v, name, value)
UpdateVertexProperty ==
    /\ CanCall
    /\ ncalls' = ncalls + 1
    /\ \E id \in Ids, lb \in {"", VLabel} :
         LET v == [NoVertex EXCEPT !.ID = id, !.Label = lb]
         IN IF incompleteVertex(v)
            THEN /\ call' = [Begin("UpdateVertexProperty", v, NoEdge) EXCEPT
                                !.pc = "done", !.ret = ErrIncompleteVertex]
                 /\ UNCHANGED <<verts, edges>>
            ELSE SingleScript("UpdateVertexProperty", v, NoEdge,
                              UpdateVertexPropertyScript(verts, edges, id, "name", "b"))
    /\ UNCHANGED <<gatewayVars, pf, conc>>

\* the call has returned to its caller, which may call again
Return ==
    /\ call.pc = "done"
    /\ call' = IdleCall
    /\ UNCHANGED <<verts, edges, ncalls>>
    /\ UNCHANGED <<gatewayVars, pf, conc>>

(***************************************************************************)
(* Concurrent UpdateVertex calls on one vertex id.  ServerBackend holds no *)
(* lock around UpdateVertex: each caller runs the vertex script, the read  *)
(* of diffVertexEdges and the operations of updateVertexEdges as separate  *)
(* submissions, and the submissions of two callers interleave freely.      *)
(*   conc.calls[c]  the call of caller c, a record like call               *)
(*   conc.pred[c]   the callers whose call had returned when c's began     *)
(***************************************************************************)
Callers == {"A", "B"}
\* the vertex id both callers reconcile: one id of Ids
RaceId == CHOOSE id \in Ids : \A other \in Ids : id <= other

IdleConc == [calls |-> [c \in Callers |-> IdleCall],
             pred |-> [c \in Callers |-> {}]]

\* the Vertex values the concurrent callers hand to UpdateVertex
RaceInputs == {v \in VertexInputs : v.ID = RaceId}

\* the callers whose call has returned
Returned == {c \in Callers : conc.calls[c].pc = "done"}

\* caller c calls UpdateVertex(v), up to the return of the vertex script
concUpdateVertex(c) ==
    /\ conc.calls[c].pc = "idle"
    /\ \E v \in RaceInputs :
         /\ Len(v.OutE) + Len(v.InE) <= MaxDesired
         /\ IF incompleteVertex(v)
            THEN /\ conc' = [conc EXCEPT
                       !.calls[c] = [Begin("UpdateVertex", v, NoEdge) EXCEPT
                                       !.pc = "done", !.ret = ErrIncompleteVertex],
                       !.pred[c] = Returned]
                 /\ UNCHANGED <<verts, edges>>
            ELSE \E out \in SendOutcomes(UpdateVertexScript(verts, edges, v)) :
                    /\ verts' = out.verts
                    /\ edges' = out.edges
                    /\ conc' = [conc EXCEPT
                          !.calls[c] = [Begin("UpdateVertex", v, NoEdge) EXCEPT
                                          !.pc = afterVertexScript(out.err),
                                          !.ret = out.err,
                                          !.sent = <<Sent("vertex", NoEdge, out.err)>>],
                          !.pred[c] = Returned]
    /\ UNCHANGED <<call, ncalls>>
    /\ UNCHANGED <<gatewayVars, pf>>

\* caller c in updateVertexEdges: diffVertexEdges reads the edges stored at
\* this moment and computes the three lists
concUpdateVertexEdgesDiff(c) ==
    /\ conc.calls[c].pc = "read"
    /\ \/ \E err \in ScriptErrs :
             conc' = [conc EXCEPT !.calls[c] =
                        [@ EXCEPT !.pc = "done", !.ret = err,
                                  !.sent = Append(@, Sent("read", NoEdge, err))]]
       \/ LET cc == conc.calls[c]
              d == diffVertexEdges(cc.v, currentVertexEdges(verts, edges, cc.v.ID))
              empty == d.toAdd = <<>> /\ d.toUpdate = <<>> /\ d.toRemove = <<>>
          IN conc' = [conc EXCEPT !.calls[c] =
                        [cc EXCEPT !.pc = IF empty THEN "done" ELSE "apply",
                                   !.toAdd = d.toAdd, !.toUpdate = d.toUpdate,
                                   !.toRemove = d.toRemove,
                                   !.sent = Append(@, Sent("read", NoEdge, ""))]]
    /\ UNCHANGED <<verts, edges, call, ncalls>>
    /\ UNCHANGED <<gatewayVars, pf>>

\* caller c in updateVertexEdges, one iteration of its loops: the operation
\* computed from c's own read is submitted against the store as it is now
concUpdateVertexEdgesApply(c) ==
    /\ conc.calls[c].pc = "apply"
    /\ LET cc == conc.calls[c]
           kind == nextEdgeOp(cc)
           edge == CASE kind = "create" -> Head(cc.toAdd)
                     [] kind = "update" -> Head(cc.toUpdate)
                     [] OTHER -> Head(cc.toRemove)
           res == CASE kind = "create" -> CreateEdgeScript(verts, edges, edge)
                    [] kind = "update" -> UpdateEdgeScript(verts, edges, edge)
                    [] OTHER -> DeleteEdgeScript(verts, edges, edge)
           rest == CASE kind = "create" -> [cc EXCEPT !.toAdd = Tail(@)]
                     [] kind = "update" -> [cc EXCEPT !.toUpdate = Tail(@)]
                     [] OTHER -> [cc EXCEPT !.toRemove = Tail(@)]
           last == rest.toAdd = <<>> /\ rest.toUpdate = <<>> /\ rest.toRemove = <<>>
       IN \E out \in SendOutcomes(res) :
             /\ verts' = out.verts
             /\ edges' = out.edges
             /\ conc' = [conc EXCEPT !.calls[c] =
                           [rest EXCEPT
                              !.pc = IF continueAfter(out.err) /\ ~last THEN "apply" ELSE "done",
                              !.ret = out.err,
                              !.sent = Append(@, Sent(kind, edge, out.err))]]
    /\ UNCHANGED <<call, ncalls>>
    /\ UNCHANGED <<gatewayVars, pf>>

InitStore ==
    /\ verts = <<>>
    /\ edges = <<>>
    /\ call = IdleCall
    /\ ncalls = 0
    /\ conc = IdleConc

(***************************************************************************)
(* RequestFilters.UnmarshalJSON                                            *)
(* A decoded JSON value is [shape, list, inner]:                           *)
(*   shape  "list" ([]interface{}), "map" (map[string]interface{}),        *)
(*          "scalar" (string, number, bool) or "null"                      *)
(*   list   the elements of a list-shaped value                            *)
(*   inner  the members of a map-shaped value, each [shape, list]          *)
(***************************************************************************)
NoMembers == [k \in {} |-> <<>>]
FilterLists == {<<1, 2>>, <<3>>}
InnerValues ==
    {[shape |-> "list", list |-> l] : l \in FilterLists}
      \cup {[shape |-> sh, list |-> <<>>] : sh \in {"scalar", "map", "null"}}
InnerKeys == {"b", "c"}
OuterKeys == {"a", "b"}

\* the maps from some of the keys K to values of V
PartialMaps(K, V) == UNION {[D -> V] : D \in SUBSET K}

FilterValues ==
    {[shape |-> "list", list |-> l, inner |-> NoMembers] : l \in FilterLists}
      \cup {[shape |-> sh, list |-> <<>>, inner |-> NoMembers] : sh \in {"scalar", "null"}}
      \cup {[shape |-> "map", list |-> <<>>, inner |-> m] :
               m \in PartialMaps(InnerKeys, InnerValues)}

\* the JSON texts handed to UnmarshalJSON: an object of filters, or a text
\* that json.Unmarshal cannot decode into a map
FilterData ==
    {[object |-> TRUE, members |-> m] : m \in PartialMaps(OuterKeys, FilterValues)}
      \cup {[object |-> FALSE, members |-> NoMembers]}

\* the orders in which `range` may visit the keys of a map
Orders(D) == {o \in [1..Cardinality(D) -> D] : \A i, j \in 1..Cardinality(D) :
                                                  i # j => o[i] # o[j]}

\* fv.([]interface{}) panics unless fv is a list
assertsList(fv) == fv.shape = "list"

\* one iteration of the outer loop on key k with value v: the filters after
\* it, and whether a type assertion of the inner loop panicked
filterStep(f, k, v) ==
    CASE v.shape = "map" ->
            IF \A fk \in DOMAIN v.inner : assertsList(v.inner[fk])
            THEN [panic |-> FALSE,
                  f |-> [fk \in DOMAIN v.inner |-> v.inner[fk].list] @@ f]
            ELSE [panic |-> TRUE, f |-> f]
      [] v.shape = "list" -> [panic |-> FALSE, f |-> (k :> v.list) @@ f]
      [] OTHER -> [panic |-> FALSE, f |-> f]

RECURSIVE filterLoop(_, _, _, _)
\* the outer loop over filters, from position i of the visiting order
filterLoop(f, members, order, i) ==
    IF i > Len(order) THEN [panic |-> FALSE, err |-> "nil", f |-> f]
    ELSE LET st == filterStep(f, order[i], members[order[i]])
         IN IF st.panic THEN [panic |-> TRUE, err |-> "", f |-> st.f]
            ELSE filterLoop(st.f, members, order, i + 1)

\* RequestFilters.UnmarshalJSON(data) on the empty filters made by App.handler
UnmarshalFilters(data, order) ==
    IF ~data.object THEN [panic |-> FALSE, err |-> "nil", f |-> NoMembers]
    ELSE filterLoop(NoMembers, data.members, order, 1)

\* json.Unmarshal calls f.UnmarshalJSON(data)
UnmarshalJSON ==
    /\ pf.fn = "UnmarshalJSON"
    /\ pf.pc = "call"
    /\ pf' = [pf EXCEPT !.pc = "return",
                        !.out = UnmarshalFilters(pf.data, pf.order)]
    /\ UNCHANGED <<gatewayVars, storeVars>>

InitFilters ==
    /\ connected = FALSE
    /\ backend = NewApp
    /\ methods = allImplems
    /\ req = [r \in Reqs |-> IdleReq]
    /\ sd = InitShutdown
    /\ InitStore
    /\ \E d \in FilterData : \E o \in Orders(DOMAIN d.members) :
          pf = [fn |-> "UnmarshalJSON", pc |-> "call", data |-> d, order |-> o,
                out |-> [panic |-> FALSE, err |-> "", f |-> NoMembers]]

NextFilters == UnmarshalJSON

SpecFilters == InitFilters /\ [][NextFilters]_vars

(***************************************************************************)
(* vertexPropertiesQuery / edgePropertiesQuery as text: the fragment        *)
(* string and the bindings, for a given iteration order of the map         *)
(***************************************************************************)
PropNames == {"a.b", "a_b", "b"}
\* position of a name in the byte order of Go's string comparison
\* ('.' is 0x2E, '_' is 0x5F)
NameRank == ("a.b" :> 1) @@ ("a_b" :> 2) @@ ("b" :> 3)
\* strings.Replace(propName, `.`, `_`, -1)
ReplaceDots == ("a.b" :> "a_b") @@ ("a_b" :> "a_b") @@ ("b" :> "b")
PropValues == {"x", "y"}

\* property maps of a Vertex (name -> list of values) and of an Edge
\* (name -> value, possibly nil)
VertexPropLists == PartialMaps(PropNames, {<<>>, <<"x">>, <<"x", "y">>})
EdgePropLists == PartialMaps(PropNames, PropValues \cup {Nil})

RECURSIVE Join(_)
\* buffer.WriteString applied to each string of ss in turn
Join(ss) == IF ss = <<>> THEN "" ELSE Head(ss) \o Join(Tail(ss))

RECURSIVE Concat(_)
Concat(seqs) == IF seqs = <<>> THEN <<>> ELSE Head(seqs) \o Concat(Tail(seqs))

RECURSIVE BindAll(_)
\* bindings[bindName] = value for each pair in turn: a later pair overwrites
BindAll(pairs) ==
    IF pairs = <<>> THEN [b \in {} |-> ""]
    ELSE LET last == pairs[Len(pairs)]
         IN (last[1] :> last[2]) @@ BindAll(SubSeq(pairs, 1, Len(pairs) - 1))

\* x put into the sorted sequence s behind every element that is not greater
InsertSorted(s, x) ==
    LET n == Cardinality({i \in 1..Len(s) : NameRank[s[i]] <= NameRank[x]})
    IN SubSeq(s, 1, n) \o <<x>> \o SubSeq(s, n + 1, Len(s))

RECURSIVE SliceStable(_)
\* SliceStable that leaves the names in the order the map gave them
SliceStable_unsorted(names) == names

\* sort.SliceStable(propNames, func(i, j) { return propNames[i] < propNames[j] })
SliceStable(names) ==
    IF names = <<>> THEN <<>>
    ELSE InsertSorted(SliceStable(SubSeq(names, 1, Len(names) - 1)), names[Len(names)])

\* vertexPropertiesQuery(propList) when `range propList` visits the names in
\* the given order: the fragment, the bindings, and the names as emitted
vertexPropertiesText(propList, order) ==
    LET propNames == SliceStable(order)
        bindName(n, i) == "_" \o ReplaceDots[n] \o "_" \o ToString(i - 1)
        clause(n, i) == ".property(" \o (IF Len(propList[n]) > 1 THEN "list," ELSE "")
                           \o "'" \o n \o "'," \o bindName(n, i) \o ")"
        clauses == Concat([k \in 1..Len(propNames) |->
                     [i \in 1..Len(propList[propNames[k]]) |-> clause(propNames[k], i)]])
        pairs == Concat([k \in 1..Len(propNames) |->
                     [i \in 1..Len(propList[propNames[k]]) |->
                         <<bindName(propNames[k], i), propList[propNames[k]][i]>>]])
    IN [query |-> Join(clauses), bindings |-> BindAll(pairs),
        names |-> SelectSeq(propNames, LAMBDA n : Len(propList[n]) > 0)]

\* edgePropertiesQuery(propList), likewise; names with a nil value are left out
edgePropertiesText(propList, order) ==
    LET propNames == SliceStable(SelectSeq(order, LAMBDA n : propList[n] # Nil))
        bindName(n) == "_" \o ReplaceDots[n]
        clauses == [k \in 1..Len(propNames) |->
                      ".property('" \o propNames[k] \o "'," \o bindName(propNames[k]) \o ")"]
        pairs == [k \in 1..Len(propNames) |->
                      <<bindName(propNames[k]), propList[propNames[k]]>>]
    IN [query |-> Join(clauses), bindings |-> BindAll(pairs), names |-> propNames]

\* two runs of vertexPropertiesQuery on equal property maps
vertexPropertiesQueryRuns ==
    /\ pf.fn = "vertexPropertiesQuery"
    /\ pf.pc = "call"
    /\ pf' = [pf EXCEPT !.pc = "return",
                        !.out1 = vertexPropertiesText(pf.propList, pf.order1),
                        !.out2 = vertexPropertiesText(pf.propList, pf.order2)]
    /\ UNCHANGED <<gatewayVars, storeVars>>

\* two runs of edgePropertiesQuery on equal property maps
edgePropertiesQueryRuns ==
    /\ pf.fn = "edgePropertiesQuery"
    /\ pf.pc = "call"
    /\ pf' = [pf EXCEPT !.pc = "return",
                        !.out1 = edgePropertiesText(pf.propList, pf.order1),
                        !.out2 = edgePropertiesText(pf.propList, pf.order2)]
    /\ UNCHANGED <<gatewayVars, storeVars>>

NoText == [query |-> "", bindings |-> [b \in {} |-> ""], names |-> <<>>]

InitQueries ==
    /\ connected = FALSE
    /\ backend = NewApp
    /\ methods = allImplems
    /\ req = [r \in Reqs |-> IdleReq]
    /\ sd = InitShutdown
    /\ InitStore
    /\ \/ \E pl \in VertexPropLists : \E o1, o2 \in Orders(DOMAIN pl) :
             pf = [fn |-> "vertexPropertiesQuery", pc |-> "call", propList |-> pl,
                   order1 |-> o1, order2 |-> o2, out1 |-> NoText, out2 |-> NoText]
       \/ \E pl \in EdgePropLists : \E o1, o2 \in Orders(DOMAIN pl) :
             pf = [fn |-> "edgePropertiesQuery", pc |-> "call", propList |-> pl,
                   order1 |-> o1, order2 |-> o2, out1 |-> NoText, out2 |-> NoText]

NextQueries ==
    \/ vertexPropertiesQueryRuns
    \/ edgePropertiesQueryRuns

SpecQueries == InitQueries /\ [][NextQueries]_vars

\* the gateway as newApp leaves it with the default implems (all of them)
Init ==
    /\ connected = FALSE
    /\ backend = NewApp
    /\ methods = allImplems
    /\ req = [r \in Reqs |-> IdleReq]
    /\ sd = InitShutdown
    /\ InitStore
    /\ pf = NoApp

InitG == InitGateway /\ InitStore /\ pf = NoApp

Next ==
    \/ UpdateVertex
    \/ updateVertexEdgesDiff
    \/ updateVertexEdgesApply
    \/ CreateEdge
    \/ UpdateEdge
    \/ DeleteEdge
    \/ DeleteVertex
    \/ UpdateVertexProperty
    \/ Return

Spec == Init /\ [][Next]_vars

\* serialized UpdateVertex calls only
NextUpdateVertex ==
    \/ UpdateVertex
    \/ updateVertexEdgesDiff
    \/ updateVertexEdgesApply
    \/ Return

SpecUpdateVertex == Init /\ [][NextUpdateVertex]_vars

\* two callers of UpdateVertex on one vertex id, not serialized
NextConcurrent ==
    \/ \E c \in Callers : concUpdateVertex(c)
    \/ \E c \in Callers : concUpdateVertexEdgesDiff(c)
    \/ \E c \in Callers : concUpdateVertexEdgesApply(c)

SpecConcurrent == Init /\ [][NextConcurrent]_vars

NextGateway ==
    \/ \E r \in Reqs : Arrive(r)
    \/ \E r \in Reqs : handler(r)
    \/ \E r \in Reqs : execute(r)
    \/ \E r \in Reqs : forward(r)
    \/ onConnected
    \/ onDisconnected

SpecGateway == InitG /\ [][NextGateway]_vars

\* the gateway with its shutdown path
NextShutdown ==
    \/ \E r \in Reqs : Arrive(r)
    \/ \E r \in Reqs : handler(r)
    \/ \E r \in Reqs : execute(r)
    \/ \E r \in Reqs : forward(r)
    \/ onConnected
    \/ Interrupt
    \/ \E s \in Stoppers : stopSend(s)
    \/ \E s \in Stoppers : stopReturn(s)
    \/ shutdownBegin
    \/ shutdownReturn
    \/ listenReturn
    \/ waitIdleConnsClosed
    \/ appStop
    \/ signalClosed

SpecShutdown == Init /\ [][NextShutdown]_vars

\* what the scheduler and the calls the code waits for guarantee: a goroutine
\* that can take its next step takes it, App.handler and the round trips it
\* waits for return, srv.Shutdown and a.backend.Stop return.  Nothing makes
\* an interrupt or a call of stop() happen, and ListenAndServe need not fail.
FairShutdown ==
    /\ \A r \in Reqs : WF_vars(handler(r)) /\ WF_vars(execute(r)) /\ WF_vars(forward(r))
    /\ \A s \in Stoppers : WF_vars(stopReturn(s))
    /\ WF_vars(shutdownBegin)
    /\ WF_vars(shutdownReturn)
    /\ WF_vars(listenReturn /\ sd.srv # "serving")
    /\ WF_vars(waitIdleConnsClosed)
    /\ WF_vars(appStop)
    /\ WF_vars(signalClosed)

\* run, its goroutine and the callers of stop() under that scheduling
SpecShutdownFair == Init /\ [][NextShutdown]_vars /\ FairShutdown

\* the ServerBackend from its construction: registration of observers and
\* the notifications of the gremlin client
InitConnection ==
    /\ connected = FALSE
    /\ backend = NewServerBackend
    /\ methods = allImplems
    /\ req = [r \in Reqs |-> IdleReq]
    /\ sd = InitShutdown
    /\ InitStore
    /\ pf = NoApp

NextConnection ==
    \/ AddConnectedHandler
    \/ AddDisconnectedHandler
    \/ onConnected
    \/ onDisconnected

SpecConnection == InitConnection /\ [][NextConnection]_vars

(***************************************************************************)
(* Claims about the gateway (specification SpecGateway)                    *)
(***************************************************************************)
\* the body of request r decodes and its (operation, type) has a handler
Registered(r) ==
    /\ Unmarshal(req[r].body).ok
    /\ methodKey(Unmarshal(req[r].body).op, Unmarshal(req[r].body).type) \in methods

\* request r was read and decoded while the state read Connected
DecodedConnected(r) ==
    /\ req[r].pc \in {"handler", "forward", "done"}
    /\ req[r].connAtEntry
    /\ req[r].parsed
    /\ Unmarshal(req[r].body).ok

\* the caller of r got exactly the upstream's status and body
AnsweredByUpstream(r) ==
    /\ req[r].out.sent
    /\ req[r].w.status = req[r].up.status
    /\ req[r].w.body = req[r].up.body

\* C1: a request that App.handler takes up while the connection state reads
\* Disconnected is handed to forward with its body unread: the body is not
\* parsed, a.methods is not consulted and no handler runs, whatever the body.
C1_DisconnectedForwards ==
    \A r \in Reqs :
        (req[r].pc \in {"forward", "handler", "done"} /\ ~req[r].connAtEntry) =>
            /\ req[r].fwds = 1
            /\ req[r].fwdBody = req[r].body
            /\ ~req[r].parsed
            /\ ~req[r].looked
            /\ req[r].hcalls = 0
            /\ req[r].pc = "done" /\ req[r].out.sent => req[r].out.body = req[r].body

\* C1 witness: a request whose body names a registered handler was forwarded
\* to the upstream because the state read Disconnected
C1_Witness ==
    \E r \in Reqs :
        /\ req[r].pc = "done"
        /\ ~req[r].connAtEntry
        /\ Registered(r)
        /\ req[r].out.sent

C3_ForwardVerbatim ==
    \A r \in Reqs :
        req[r].out.sent =>
            /\ req[r].out.method = req[r].method
            /\ req[r].out.url = contrailAPIURL \o req[r].path
            /\ req[r].out.header = req[r].header
            /\ req[r].out.body = req[r].body
            /\ req[r].w.status = req[r].up.status
            /\ req[r].w.sent = req[r].up.header
            /\ req[r].w.body = req[r].up.body

\* C9 (as claimed): when the Send of a handler's query fails with a transport
\* error, the caller gets the error and the connection state is Disconnected
\* right after, so that later requests take the fallback.
C9_TransportErrorDisconnects ==
    [][\A r \in Reqs :
          (req[r].pc = "handler" /\ req'[r].pc = "done"
             /\ req'[r].senderr \in TransportErrs) =>
                (req'[r].w.status = 500 /\ connected' = FALSE)]_vars

\* the step in which the Send of r's handler finds the backend unreachable:
\* the connection state reads Disconnected (a disconnect notification came
\* after App.handler had read it) and Send returns a transport error
SendFindsUnreachable(r) ==
    /\ req[r].pc = "handler"
    /\ req'[r].pc = "done"
    /\ ~connected
    /\ req'[r].senderr \in TransportErrs

\* C21 (as claimed): however disconnect notifications interleave with the
\* processing of a request, a request whose handler submits its script while
\* the backend is unreachable is served by forwarding the original request
\* upstream and is not answered with a gateway error.
C21_UnreachableForwards ==
    [][\A r \in Reqs :
          SendFindsUnreachable(r) =>
             /\ req'[r].fwds = 1
             /\ req'[r].out.sent
             /\ req'[r].w.status = req'[r].up.status]_vars

\* the step in which the handler of r returns an error to App.handler
HandlerFails(r) ==
    /\ req[r].pc = "handler"
    /\ req'[r].pc = "done"
    /\ req'[r].senderr # ""

\* C10: a handler error is answered with status 500 and a text/plain body that
\* is the error message, nothing is forwarded, and the step changes neither
\* the connection state nor the dispatch table nor any other request.
C10_HandlerError ==
    /\ [](\A r \in Reqs :
            (req[r].pc = "done" /\ req[r].senderr # "") =>
                /\ req[r].w.status = 500
                /\ req[r].w.body = req[r].senderr
                /\ "Content-Type" \in DOMAIN req[r].w.sent
                /\ req[r].w.sent["Content-Type"] = <<"text/plain; charset=utf-8">>
                /\ req[r].fwds = 0
                /\ ~req[r].out.sent)
    /\ [][\A r \in Reqs :
            HandlerFails(r) =>
                /\ connected' = connected
                /\ methods' = methods
                /\ \A o \in Reqs \ {r} : req'[o] = req[o]]_vars

\* C10 witness: a registered handler has run and returned an error
C10_Witness ==
    \E r \in Reqs :
        /\ req[r].pc = "done"
        /\ req[r].hcalls = 1
        /\ req[r].senderr \in SendErrs
        /\ req[r].w.status = 500

\* C11 (as claimed): every request whose body does not decode is answered
\* with a client error, no handler runs for it and nothing is forwarded.
C11_Original ==
    \A r \in Reqs :
        (req[r].pc \in {"forward", "handler", "done"} /\ ~Unmarshal(req[r].body).ok) =>
            /\ req[r].hcalls = 0
            /\ req[r].fwds = 0
            /\ ~req[r].out.sent
            /\ req[r].pc = "done" => req[r].w.status = 400

\* C11 (amended): every request taken up while the connection state reads
\* Connected and whose body does not decode is answered with status 400, no
\* handler runs for it, a.methods is not consulted and nothing is forwarded.
C11_DecodeErrorRejected ==
    \A r \in Reqs :
        (req[r].pc \in {"forward", "handler", "done"} /\ req[r].connAtEntry
           /\ ~Unmarshal(req[r].body).ok) =>
            /\ req[r].pc = "done"
            /\ req[r].w.status = 400
            /\ req[r].w.body # ""
            /\ req[r].hcalls = 0
            /\ ~req[r].looked
            /\ req[r].fwds = 0
            /\ ~req[r].out.sent

\* C11 witness: json.Unmarshal was applied to an undecodable body and the
\* request was answered 400
C11_Witness ==
    \E r \in Reqs :
        /\ req[r].pc = "done"
        /\ req[r].connAtEntry
        /\ req[r].parsed
        /\ ~Unmarshal(req[r].body).ok
        /\ req[r].w.status = 400

\* the HTTP server accepts nothing more and no request is in flight
Drained == sd.srv \in {"closing", "closed"} /\ sd.sig = "done" /\ InFlight(req) = {}

\* the completion signal has been sent on closed
ClosedSent == sd.main = "exit"

\* C12: the backend is closed only after the HTTP server stopped accepting
\* and drained the requests in flight; the completion signal is sent only
\* after both; stop() returns only after the backend close; and once the
\* server is shut down no request is taken up any more.
C12_ShutdownOrder ==
    /\ [](sd.main \in {"stop", "signal", "exit"} => Drained)
    /\ [](sd.backendStopped => Drained)
    /\ []((ClosedSent \/ sd.closed > 0) => (sd.backendStopped /\ Drained))
    /\ [](\A s \in Stoppers :
            sd.stopper[s] = "returned" => (sd.backendStopped /\ Drained /\ ClosedSent))
    /\ [][sd.srv # "serving" => InFlight(req') \subseteq InFlight(req)]_vars

\* C12 witness: stop() has returned after a shutdown that had to wait for a
\* request in flight when Shutdown was called
C12_Witness ==
    /\ \E s \in Stoppers : sd.stopper[s] = "returned"
    /\ sd.backendStopped
    /\ sd.waited
    /\ \E r \in Reqs : req[r].pc = "done"

\* the quit signal or an interrupt has been delivered
Delivered == sd.sigint \/ sd.quit > 0 \/ sd.sig # "select"

\* run sends the completion signal and returns once shutdown was asked for
RunCompletes == Delivered ~> ClosedSent

\* the completion signal is sent once: never after run has returned
SignalledOnce == [][sd.main = "exit" => sd'.closed <= sd.closed]_vars

\* every call of stop() that got its quit signal through returns
StopReturns ==
    \A s \in Stoppers : (sd.stopper[s] = "sent") ~> (sd.stopper[s] = "returned")

\* C22 (as claimed): once the quit signal or an interrupt has been delivered,
\* the completion signal is eventually sent, exactly once, and run returns,
\* and every call of stop() eventually returns, also when stop() is called
\* more than once or when the HTTP server failed to start.
C22_ShutdownCompletes ==
    /\ RunCompletes
    /\ SignalledOnce
    /\ StopReturns

\* C15: when Send returns a result to App.execute, the payload execute
\* returns is never empty: it is the literal [] for a result of length zero
\* and the result itself otherwise; that payload is the body of the response.
C15_EmptyResultNormalized ==
    \A r \in Reqs :
        (req[r].pc = "done" /\ req[r].sendok) =>
            /\ Len(req[r].payload) > 0
            /\ Len(req[r].sendres) = 0 => req[r].payload = "[]"
            /\ Len(req[r].sendres) > 0 => req[r].payload = req[r].sendres
            /\ req[r].w.body = req[r].payload

\* C15 witness: Send returned a result of length zero and the caller got []
C15_Witness ==
    \E r \in Reqs :
        /\ req[r].pc = "done"
        /\ req[r].sendok
        /\ req[r].sendres = ""
        /\ req[r].w.status = 200
        /\ req[r].w.body = "[]"

(***************************************************************************)
(* Claims about RequestFilters.UnmarshalJSON (SpecFilters)                 *)
(***************************************************************************)
\* the (name, list) pairs of a filter map
Pairs(f) == {<<k, f[k]>> : k \in DOMAIN f}

\* the (name, list) pairs the filters of data should yield: list-shaped values
\* under their own key, list-shaped members of map-shaped values under theirs
Promoted(data) ==
    LET m == data.members
    IN {<<k, m[k].list>> : k \in {x \in DOMAIN m : m[x].shape = "list"}}
         \cup UNION {{<<fk, m[k].inner[fk].list>> :
                         fk \in {x \in DOMAIN m[k].inner : m[k].inner[x].shape = "list"}} :
                     k \in {x \in DOMAIN m : m[x].shape = "map"}}

\* no filter name is produced twice
Unambiguous(data) ==
    \A p, q \in Promoted(data) : p[1] = q[1] => p = q

\* C13 (as claimed): decoding a filter object never aborts and returns no
\* error whatever the shape of its values, also when a member of a map-shaped
\* value is not a list; list-shaped values are kept under their key, members
\* of map-shaped values are promoted, every other value is dropped.
C13_DecodeNeverFails ==
    (pf.fn = "UnmarshalJSON" /\ pf.pc = "return") =>
        /\ ~pf.out.panic
        /\ pf.out.err = "nil"
        /\ Pairs(pf.out.f) \subseteq Promoted(pf.data)
        /\ Unambiguous(pf.data) => Pairs(pf.out.f) = Promoted(pf.data)

(***************************************************************************)
(* Claims about the property query generators (SpecQueries)                *)
(***************************************************************************)
\* the names of the sequence are in strictly increasing byte order
Lexicographic(names) ==
    \A i, j \in 1..Len(names) : i < j => NameRank[names[i]] < NameRank[names[j]]

\* C14: two runs of vertexPropertiesQuery, or of edgePropertiesQuery, on equal
\* property maps give the same fragment string and the same bindings whatever
\* the orders in which the map was iterated, and the property names are
\* emitted in lexicographic order.
C14_Deterministic ==
    (pf.fn \in {"vertexPropertiesQuery", "edgePropertiesQuery"} /\ pf.pc = "return") =>
        /\ pf.out1.query = pf.out2.query
        /\ pf.out1.bindings = pf.out2.bindings
        /\ Lexicographic(pf.out1.names)
        /\ Lexicographic(pf.out2.names)

\* C14 witness: two runs that visited three names in different orders gave
\* one fragment, in which two names share a binding
C14_Witness ==
    /\ pf.fn = "vertexPropertiesQuery"
    /\ pf.pc = "return"
    /\ pf.order1 # pf.order2
    /\ Len(pf.out1.names) = 3
    /\ pf.out1.query = pf.out2.query
    /\ "_a_b_0" \in DOMAIN pf.out1.bindings

(***************************************************************************)
(* Claims about the connection state (SpecConnection)                      *)
(***************************************************************************)
\* the step is a notification of the gremlin client that shows in the state
Notified == backend'.last # backend.last

\* C18: the connection state is Disconnected until the first notification and
\* changes only in a notification step; a notification sets the state to the
\* value reported and invokes, within the same step, every observer
\* registered for that kind exactly once, in registration order, and no
\* observer of the other kind.
C18_ConnectionState ==
    /\ [](backend.last.kind = "none" => ~connected)
    /\ [](backend.last.kind # "none" => (connected <=> backend.last.kind = "connected"))
    /\ [][connected' # connected => Notified]_vars
    /\ [][Notified =>
            /\ connected' = (backend'.last.kind = "connected")
            /\ backend'.last.calls =
                 IF backend'.last.kind = "connected"
                 THEN backend.connectedHandlers
                 ELSE backend.disconnectedHandlers
            /\ backend'.connectedHandlers = backend.connectedHandlers
            /\ backend'.disconnectedHandlers = backend.disconnectedHandlers]_vars

\* C18 witness: a disconnect notification after a connect one has invoked two
\* different observers, in the order of their registration
C18_Witness ==
    /\ ~connected
    /\ backend.last.kind = "disconnected"
    /\ Len(backend.disconnectedHandlers) = 2
    /\ backend.disconnectedHandlers[1] # backend.disconnectedHandlers[2]
    /\ backend.last.calls = backend.disconnectedHandlers
    /\ backend.connectedHandlers # <<>>

(***************************************************************************)
(* Claims about the ServerBackend (Spec and SpecUpdateVertex)              *)
(***************************************************************************)
\* identity and property map of an edge, without the endpoint labels
Stored(e) == [OutV |-> e.OutV, InV |-> e.InV, Label |-> e.Label,
              Properties |-> e.Properties]

\* the stored edges touching vertex id, as a set
StoredTouching(id) ==
    {edges[i] : i \in {j \in 1..Len(edges) : edges[j].OutV = id \/ edges[j].InV = id}}

\* the edges Vertex v declares, as a set
DesiredSet(v) == {Stored(vertexEdges(v)[i]) : i \in 1..Len(vertexEdges(v))}

\* UpdateVertex has returned nil
UpdateVertexReturnedNil ==
    call.op = "UpdateVertex" /\ call.pc = "done" /\ call.ret = ""

\* C4 (as claimed): once UpdateVertex(v) has returned nil, the stored edges
\* touching v.ID (identity and property map) are exactly the edges v declares
\* (stated for a store that held no identity twice when the call began and
\* a v that declares no identity twice).
C4_Converges ==
    (UpdateVertexReturnedNil /\ call.nodup /\ NoDuplicates(vertexEdges(call.v))) =>
        StoredTouching(call.v.ID) = DesiredSet(call.v)

\* C5 (as claimed): under serialized UpdateVertex calls from a store without
\* duplicates, no two stored edges ever share (source id, destination id, label).
C5_NoDuplicateEdges == NoDuplicates(edges)

\* the label the Edge e carries for its endpoint x
EndpointLabel(e, x) == IF x = e.OutV THEN e.OutVLabel ELSE e.InVLabel

\* C6 (as claimed): every stored edge has both endpoints in the store, and a
\* CreateEdge call (whatever the combination of endpoint labels) that found
\* one endpoint present and the other, labelled one absent has created the
\* absent one as a stub with the sentinel properties and added the edge.
C6_StubBeforeEdge ==
    /\ \A i \in 1..Len(edges) : Exists(verts, edges[i].OutV) /\ Exists(verts, edges[i].InV)
    /\ (call.op = "CreateEdge" /\ call.pc = "done" /\ call.ret = "") =>
          \A x \in call.absent :
              (call.absent = {x} /\ EndpointLabel(call.e, x) # "") =>
                  /\ Exists(verts, x)
                  /\ verts[x].props = StubProps
                  /\ \E i \in 1..Len(edges) : edges[i] = Stored(
                        [call.e EXCEPT !.Properties = edgePropertiesQuery(@)])

\* the step in which diffVertexEdges returns its three lists
DiffReturns ==
    /\ call.pc = "read"
    /\ call'.pc \in {"apply", "done"}
    /\ call'.ret = ""

\* the list holds an edge with the identity of e
HasIdentity(list, e) == \E i \in 1..Len(list) : SameIdentity(e, list[i])

\* the list holds an edge with the identity of e and an equal property map
HasIdentical(list, e) ==
    \E i \in 1..Len(list) : SameIdentity(e, list[i]) /\ list[i].Properties = e.Properties

\* the list holds an edge with the identity of e and another property map
HasDiffering(list, e) ==
    \E i \in 1..Len(list) : SameIdentity(e, list[i]) /\ list[i].Properties # e.Properties

\* the three lists are what the claim says for Current cur and Desired des
DiffAsClaimed(cur, des, toAdd, toUpdate, toRemove) ==
    /\ toAdd = SelectSeq(des, LAMBDA e : ~HasIdentity(cur, e))
    /\ toUpdate = SelectSeq(des, LAMBDA e : HasDiffering(cur, e))
    /\ toRemove = SelectSeq(cur, LAMBDA e : ~HasIdentity(des, e))
    /\ \A i \in 1..Len(toAdd) : ~HasIdentity(toUpdate, toAdd[i]) /\ ~HasIdentity(toRemove, toAdd[i])
    /\ \A i \in 1..Len(toUpdate) : ~HasIdentity(toRemove, toUpdate[i])
    /\ \A i \in 1..Len(des) :
          HasIdentical(cur, des[i]) =>
              /\ ~HasIdentical(toAdd, des[i])
              /\ ~HasIdentical(toUpdate, des[i])
              /\ ~HasIdentical(toRemove, des[i])

KindRank == ("vertex" :> 0) @@ ("read" :> 1) @@ ("create" :> 2)
              @@ ("update" :> 3) @@ ("delete" :> 4)

\* C17: the scripts of one UpdateVertex are submitted in a fixed order: every
\* CreateEdge before every UpdateEdge before every DeleteEdge; when a
\* DeleteEdge is submitted no addition and no update of the pass is left and
\* every script submitted before it has succeeded.
C17_ApplyOrder ==
    call.op = "UpdateVertex" =>
        /\ \A i, j \in 1..Len(call.sent) :
              i < j => KindRank[call.sent[i].kind] <= KindRank[call.sent[j].kind]
        /\ \A j \in 1..Len(call.sent) :
              call.sent[j].kind = "delete" =>
                  /\ call.toAdd = <<>>
                  /\ call.toUpdate = <<>>
                  /\ \A i \in 1..(j - 1) : call.sent[i].err = ""

\* C17 witness: a pass that submitted a CreateEdge, an UpdateEdge and a
\* DeleteEdge, in that order
C17_Witness ==
    /\ call.op = "UpdateVertex"
    /\ call.pc = "done"
    /\ Len(call.sent) = 5
    /\ call.sent[3].kind = "create"
    /\ call.sent[4].kind = "update"
    /\ call.sent[5].kind = "delete"

\* C19: in UpdateVertex the vertex script is the first script submitted and
\* the edges are read and reconciled only after it succeeded; when it fails
\* UpdateVertex returns its error and submits no edge read and no edge
\* operation.
C19_EdgesAfterVertex ==
    (call.op = "UpdateVertex" /\ call.sent # <<>>) =>
        /\ call.sent[1].kind = "vertex"
        /\ \A i \in 2..Len(call.sent) : call.sent[i].kind # "vertex"
        /\ (Len(call.sent) > 1 \/ call.pc \in {"read", "apply"}) =>
               call.sent[1].err = ""
        /\ call.sent[1].err # "" =>
               /\ call.pc = "done"
               /\ call.ret = call.sent[1].err
               /\ Len(call.sent) = 1
               /\ call.toAdd = <<>> /\ call.toUpdate = <<>> /\ call.toRemove = <<>>

\* C19 witness: the vertex script of an UpdateVertex for a vertex declaring
\* an edge failed while the store held an edge touching the vertex, and the
\* call returned the error having submitted nothing else
C19_Witness ==
    /\ call.op = "UpdateVertex"
    /\ call.pc = "done"
    /\ call.sent = <<Sent("vertex", NoEdge, "connection closed")>>
    /\ call.ret = "connection closed"
    /\ vertexEdges(call.v) # <<>>
    /\ StoredTouching(call.v.ID) # {}
    /\ StoredTouching(call.v.ID) # DesiredSet(call.v)

\* the calls of the two callers ran at the same time: neither began after
\* the other had returned
Overlapped ==
    \A c, d \in Callers : c # d => d \notin conc.pred[c]

\* both concurrent calls have returned nil and the stored edges touching the
\* vertex are the edges neither of them declared
LostUpdate ==
    /\ \A c \in Callers : conc.calls[c].pc = "done" /\ conc.calls[c].ret = ""
    /\ \A c \in Callers : StoredTouching(RaceId) # DesiredSet(conc.calls[c].v)

\* call c declared no identity twice, found no identity stored twice, and
\* submitted no UpdateEdge or DeleteEdge for a pair of vertices between
\* which it declares another edge (the pair-wide selection of those two
\* scripts is a different defect)
Clean(c) ==
    /\ c.nodup
    /\ NoDuplicates(vertexEdges(c.v))
    /\ \A i \in 1..Len(c.sent) :
          c.sent[i].kind \in {"update", "delete"} =>
             \A j \in 1..Len(vertexEdges(c.v)) :
                Between(vertexEdges(c.v)[j], c.sent[i].e.OutV, c.sent[i].e.InV)
                   => SameIdentity(vertexEdges(c.v)[j], c.sent[i].e)

\* C20: two UpdateVertex calls on one vertex id that run at the same time
\* can lose an update: an interleaving of their reads and operations ends
\* with both calls returned nil and the stored edges touching the vertex
\* equal to the desired set of neither call (the witness).  It takes the
\* overlap: when one call began after the other had returned, the
\* stored edges are those the later call declared.
C20_LostUpdateNeedsOverlap ==
    (LostUpdate /\ \A c \in Callers : Clean(conc.calls[c])) => Overlapped

\* C20 witness: two overlapping calls that declare the same identity with
\* different property maps (calls that converge in either serial order) have
\* both returned nil, and the store holds the desired set of neither
C20_Witness ==
    /\ LostUpdate
    /\ Overlapped
    /\ \A c \in Callers : Clean(conc.calls[c])
    /\ \A c \in Callers : Len(vertexEdges(conc.calls[c].v)) = 1
    /\ SameIdentity(vertexEdges(conc.calls["A"].v)[1], vertexEdges(conc.calls["B"].v)[1])

\* the step in which an edge operation of the pass fails
EdgeOpFails ==
    /\ call.pc = "apply"
    /\ call'.pc = "done"
    /\ call'.ret # ""

\* C7: in a reconciliation pass a failed script is the last one submitted,
\* UpdateVertex returns exactly its error, and the failing step leaves the
\* store as the operations before it made it (nothing is rolled back).
C7_FirstFailureAborts ==
    /\ [](call.op = "UpdateVertex" =>
            \A i \in 1..Len(call.sent) :
                call.sent[i].err # "" =>
                    /\ i = Len(call.sent)
                    /\ call.pc = "done"
                    /\ call.ret = call.sent[i].err)
    /\ [][EdgeOpFails => (verts' = verts /\ edges' = edges)]_vars

\* C7 witness: a pass whose first edge operation was applied, whose second
\* failed, and which returned with an operation still not submitted
C7_Witness ==
    /\ call.op = "UpdateVertex"
    /\ call.pc = "done"
    /\ Len(call.sent) = 4
    /\ call.sent[3].err = ""
    /\ call.sent[4].err # ""
    /\ call.ret = call.sent[4].err
    /\ Len(call.toAdd) + Len(call.toUpdate) + Len(call.toRemove) > 0
    /\ edges # <<>>

\* a call of UpdateVertex / UpdateVertexProperty with an empty label
IncompleteCall(c) ==
    /\ c.op \in {"UpdateVertex", "UpdateVertexProperty"}
    /\ c.pc # "idle"
    /\ c.v.Label = ""

\* C8: UpdateVertex (CreateVertex) and UpdateVertexProperty with an empty
\* label return ErrIncompleteVertex, submit no script and leave the store
\* unchanged.
C8_IncompleteVertex ==
    /\ [](IncompleteCall(call) =>
            /\ call.pc = "done"
            /\ call.ret = ErrIncompleteVertex
            /\ call.sent = <<>>)
    /\ [][(IncompleteCall(call') /\ call.pc = "idle") =>
            (verts' = verts /\ edges' = edges)]_vars

\* C8 witness: UpdateVertex with an empty label and declared edges was
\* refused on a store that holds edges
C8_Witness ==
    /\ IncompleteCall(call)
    /\ call.op = "UpdateVertex"
    /\ call.ret = ErrIncompleteVertex
    /\ vertexEdges(call.v) # <<>>
    /\ edges # <<>>

====
